---- MODULE Spec2Model ----
(***************************************************************************)
(* Model of app.py: the NetworkState object shared by the Traffic Sampler  *)
(* (_traffic_monitor), the Snapshot Logger (_background_logger,            *)
(* _log_to_db), the Metrics Facade (get_current_metrics) and the           *)
(* configuration handler (update_config).                                  *)
(*                                                                         *)
(* Numbers are fixed point, exact on the inputs the model draws:           *)
(*   load            in 1/100 Mbps      (0.05 Mbps = 5)                    *)
(*   ratios          in 1/10000         (0.85 = 8500)                      *)
(*   packet loss     in 1/10000 percent (1.0 % = 10000)                    *)
(*   delays          in 1/1000 ms                                          *)
(*   voip rate       in 1/10 kbps, http/ftp rates in 1/1000 Mbps           *)
(*   throughput      in 1/10000 Mbps                                       *)
(*   wall-clock time in ticks of 1/20 s (one minute = 1200 ticks)          *)
(***************************************************************************)
EXTENDS Integers, Sequences, FiniteSets, TLC

VARIABLES
    current_load_mbps,  \* self.current_load_mbps
    last_state,         \* self.last_state
    config,             \* self.config
    model,              \* self.model is not None
    lock,               \* self.lock (threading.RLock): owner and recursion count
    pc,                 \* position of every thread
    loc,                \* locals of get_current_metrics, per calling thread
    smp,                \* locals of _traffic_monitor
    data,               \* request.json of the update_config call in progress
    clock,              \* time.time(), in ticks
    sleep_time,         \* local sleep_time of _background_logger
    row,                \* locals voip .. state of _log_to_db
    hist                \* history: what the calls in progress have observed

vars == <<current_load_mbps, last_state, config, model, lock, pc, loc, smp,
          data, clock, sleep_time, row, hist>>

----------------------------------------------------------------------------
(* Integer helpers *)

Min(a, b) == IF a < b THEN a ELSE b

Max(a, b) == IF a > b THEN a ELSE b

Abs(a) == IF a < 0 THEN -a ELSE a

\* Python int(): truncation toward zero of n/d (d > 0)
Trunc(n, d) == IF n >= 0 THEN n \div d ELSE -((-n) \div d)

\* Python round(): nearest multiple of unit, ties to even
RoundTo(n, unit) ==
    LET q == n \div unit
        r == n % unit
    IN  IF 2 * r < unit THEN q * unit
        ELSE IF 2 * r > unit THEN (q + 1) * unit
        ELSE IF q % 2 = 0 THEN q * unit ELSE (q + 1) * unit

States == {"low", "med", "high"}

Priorities == {"low", "std", "high"}

----------------------------------------------------------------------------
(* get_current_metrics: the pure parts *)

\* self.capacity_mbps = 100.0, in 1/100 Mbps
capacity_mbps == 10000

\* self.current_load_mbps = 0.05 at construction
InitialLoad == 5

\* the 0.01 floor of max(0.01, .)
LoadFloor == 1

\* lines 191-198: traffic split of total_load into voip (1/10 kbps), http, ftp (1/1000 Mbps)
TrafficSplit(total_load) ==
    IF total_load < 100
    THEN [voip_kbps |-> Max(200, total_load * 40),
          http_mbps |-> Max(100, total_load * 5),
          ftp_mbps  |-> Max(0, total_load * 1)]
    ELSE [voip_kbps |-> Max(500, total_load * 10),
          http_mbps |-> Max(500, total_load * 7),
          ftp_mbps  |-> Max(100, total_load * 2)]

\* line 202: int(total_load * 120)
ArrivalRate(total_load) == Trunc(total_load * 120, 100)

\* line 205 with the cap at 0.999
UtilizationRatioLooseCap(total_load) == Min(9990, (total_load * 10000) \div capacity_mbps)

\* line 205: min(0.99, total_load / capacity_mbps), in 1/10000
UtilizationRatio(total_load) == Min(9900, (total_load * 10000) \div capacity_mbps)

\* line 206: 5.0 / (1.0 - utilization_ratio), in 1/1000 ms
BaseDelay(u) == (5000 * 10000) \div (10000 - u)

\* line 209: int(max(0, (total_load - capacity_mbps*0.4) * 50))
QueueLength(total_load) == Trunc(Max(0, (total_load - (capacity_mbps * 4) \div 10) * 50), 100)

\* lines 187-209: everything derived from the one read of current_load_mbps
Features(total_load) ==
    [traffic          |-> TrafficSplit(total_load),
     arrival_rate     |-> ArrivalRate(total_load),
     utilization_ratio |-> UtilizationRatio(total_load),
     base_delay       |-> BaseDelay(UtilizationRatio(total_load)),
     queue_length     |-> QueueLength(total_load)]

\* line 227: utilization_ratio < config['threshold']
BelowThreshold(u, threshold) == u < threshold

\* line 229 without the min
BelowMedLimitNoCap(u, threshold) == u < threshold + 3500

\* line 229: utilization_ratio < min(0.95, config['threshold'] + 0.35)
BelowMedLimit(u, threshold) == u < Min(9500, threshold + 3500)

\* lines 227-232 with one value of the threshold
ThresholdState(u, threshold) ==
    IF BelowThreshold(u, threshold) THEN "low"
    ELSE IF BelowMedLimit(u, threshold) THEN "med"
    ELSE "high"

\* line 233: confidence of the threshold fallback, in 1/10
ThresholdConfidence == 800

\* line 222: round(max(probs) * 100, 1) of the fully grown tree of
\* train_model.py (max_depth=None): every leaf is pure, so 100.0
ModelConfidences == {1000}

Triple(a, b, c) == [voip |-> a, http |-> b, ftp |-> c]

\* lines 240, 242
AllocLow == [bw |-> Triple(20, 50, 30), q |-> Triple(10, 30, 60)]

\* lines 245-246
AllocMedBase == [bw |-> Triple(30, 45, 25), q |-> Triple(20, 40, 40)]

\* line 248 with the queue shares moved the way the bandwidth shares move
AdjustMedHighSameWay(a, ftp_prio) ==
    IF ftp_prio = "high"
    THEN [bw |-> Triple(a.bw.voip, a.bw.http - 10, a.bw.ftp + 10),
          q  |-> Triple(a.q.voip, a.q.http - 10, a.q.ftp + 10)]
    ELSE a

\* line 248
AdjustMedHigh(a, ftp_prio) ==
    IF ftp_prio = "high"
    THEN [bw |-> Triple(a.bw.voip, a.bw.http - 10, a.bw.ftp + 10),
          q  |-> Triple(a.q.voip, a.q.http + 10, a.q.ftp - 10)]
    ELSE a

\* line 249
AdjustMedLow(a, ftp_prio) ==
    IF ftp_prio = "low"
    THEN [bw |-> Triple(a.bw.voip, a.bw.http + 10, a.bw.ftp - 10),
          q  |-> Triple(a.q.voip, a.q.http - 10, a.q.ftp + 10)]
    ELSE a

\* line 254: int(rem * 0.7) in IEEE double arithmetic. The product is the
\* exact 7*rem/10 truncated, except where the double product falls just
\* below the integer (|rem| = 90, 170, 180 within |rem| <= 300).
IntSevenTenths(rem) ==
    LET exact == Trunc(rem * 7, 10)
    IN  IF Abs(rem) \in {90, 170, 180}
        THEN (IF rem > 0 THEN exact - 1 ELSE exact + 1)
        ELSE exact

\* lines 252-258 with the bulk share computed as int(rem * 0.3)
AllocHighBaseThirty(voip_alloc) ==
    LET bw_voip == voip_alloc
        rem     == 100 - bw_voip
        bw_http == IntSevenTenths(rem)
        bw_ftp  == Trunc(rem * 3, 10)
    IN  [bw |-> Triple(bw_voip, bw_http, bw_ftp), q |-> Triple(50, 30, 20)]

\* lines 252-258
AllocHighBase(voip_alloc) ==
    LET bw_voip == voip_alloc
        rem     == 100 - bw_voip
        bw_http == IntSevenTenths(rem)
        bw_ftp  == rem - bw_http
    IN  [bw |-> Triple(bw_voip, bw_http, bw_ftp), q |-> Triple(50, 30, 20)]

\* line 259
AdjustHigh(a, ftp_prio) ==
    IF ftp_prio = "high"
    THEN [bw |-> a.bw, q |-> Triple(a.q.voip, a.q.http + 10, a.q.ftp - 10)]
    ELSE a

\* lines 238-259 with one value of the configuration
Allocation(state, cfg) ==
    IF state = "low" THEN AllocLow
    ELSE IF state = "med"
         THEN AdjustMedLow(AdjustMedHigh(AllocMedBase, cfg.ftp_prio), cfg.ftp_prio)
         ELSE AdjustHigh(AllocHighBase(cfg.voip_alloc), cfg.ftp_prio)

\* lines 262-263
LinkUtilization(u) == Min(100, (u * 100) \div 10000)

QueueOccupancy(queue_length) == Min(100, (queue_length * 100) \div 500)

\* lines 266-275: packet loss in 1/10000 percent
PacketLoss(state, u) ==
    IF state = "high" THEN 5000 + (u - 7500) * 5
    ELSE IF state = "med" THEN 1000
    ELSE 200

\* lines 268, 271, 274: final delay in 1/1000 ms
FinalDelay(state, base_delay) ==
    IF state = "high" THEN (base_delay * 8) \div 10
    ELSE IF state = "med" THEN (base_delay * 9) \div 10
    ELSE base_delay

\* line 277: total_load * (1.0 - packet_loss/100.0), in 1/10000 Mbps
FinalThroughput(total_load, packet_loss) ==
    total_load * 100 - (total_load * packet_loss) \div 10000

\* lines 262-277
Performance(total_load, state, f) ==
    [link_utilization |-> LinkUtilization(f.utilization_ratio),
     queue_occupancy  |-> QueueOccupancy(f.queue_length),
     final_delay      |-> FinalDelay(state, f.base_delay),
     packet_loss      |-> PacketLoss(state, f.utilization_ratio),
     final_tput       |-> FinalThroughput(total_load, PacketLoss(state, f.utilization_ratio))]

\* line 294
CriticalAlert(u) == u > 8500

\* line 297
LossAlert(packet_loss) == packet_loss > 10000

----------------------------------------------------------------------------
(* Threads and the state after NetworkState.__init__ *)

\* threads that call get_current_metrics: the Logger and a request thread
Callers == {"log", "req"}

Threads == {"smp", "log", "req", "cfg"}

Triple0 == Triple(0, 0, 0)

\* locals of one get_current_metrics call before line 187
NoLocals ==
    [total_load |-> 0,
     feat       |-> Features(0),
     state      |-> "none",
     confidence |-> 0,
     thr_reads  |-> <<>>,       \* values read from config['threshold'] (227, 229)
     prio_reads |-> <<>>,       \* values read from config['ftp_prio'] (248, 249, 259)
     alloc      |-> [bw |-> Triple0, q |-> Triple0],
     perf       |-> Performance(0, "none", Features(0)),
     transition |-> "none",     \* state named by the transition alert, if any
     critical   |-> FALSE,      \* the CRITICAL utilization alert is in alerts
     loss_alert |-> FALSE]      \* the packet loss ALERT is in alerts

\* hist holds, besides the history of each call, the state the last completed
\* call classified and the thread that made it, the POST requests so far and
\* the time at which the last _log_to_db was entered (-1: never).
\* history of one call: configurations held by config since the call began,
\* the state the preceding completed call classified and the thread that made
\* it, whether line 291 changed last_state
NoHistory == [cfgs |-> {}, prev |-> "none", prev_by |-> "none", changed |-> FALSE]

\* lines 27-31
InitialConfig == [voip_alloc |-> 50, threshold |-> 4000, ftp_prio |-> "std"]

NoData == [kind |-> "absent", v |-> 0, s |-> ""]

NoRequest == [voip_alloc |-> NoData, threshold |-> NoData, ftp_prio |-> NoData]

FreeLock == [owner |-> "none", count |-> 0]

\* locals of _log_to_db outside lines 115-140
NoRow == [voip |-> 0, http |-> 0, ftp |-> 0, delay |-> 0, tput |-> 0, loss |-> 0, state |-> "none"]

\* the object with the given load, last state, configuration and time
StateWith(load, last, cfg, now) ==
    /\ current_load_mbps = load
    /\ last_state = last
    /\ config = cfg
    /\ model \in BOOLEAN
    /\ lock = FreeLock
    /\ pc = [t \in Threads |->
                CASE t = "smp" -> "s_read1"
                  [] t = "log" -> "l_now"
                  [] t = "req" -> "idle"
                  [] t = "cfg" -> "c_idle"]
    /\ loc = [t \in Callers |-> NoLocals]
    /\ smp = [delta |-> 0]
    /\ data = NoRequest
    /\ clock = now
    /\ sleep_time = 0
    /\ row = NoRow
    /\ hist = [classified |-> last, by |-> "none", posts |-> 0, logged |-> -1,
               call |-> [t \in Callers |-> NoHistory]]

\* lines 23-62: the object after construction; the model file loads or not
Init == StateWith(InitialLoad, "low", InitialConfig, 0)

Goto(t, label) == pc' = [pc EXCEPT ![t] = label]

----------------------------------------------------------------------------
(* threading.RLock *)

\* a lock that excludes nobody
CanAcquireAlways(t) == TRUE

\* RLock.acquire: free, or already owned by the caller
CanAcquire(t) == lock.owner \in {"none", t}

Acquire(t) ==
    /\ CanAcquire(t)
    /\ lock' = [owner |-> t, count |-> lock.count + 1]

\* a with block that leaves the lock as it is
ReleaseNever(t) == lock' = lock

\* RLock.release, at the exit of a with block
Release(t) ==
    lock' = IF lock.count <= 1 THEN FreeLock
            ELSE [lock EXCEPT !.count = @ - 1]

----------------------------------------------------------------------------
(* get_current_metrics, one action per access to the shared state *)

\* line 370 (get_status) and line 111 (_log_to_db): the call begins
BeginCall(t, from) ==
    /\ pc[t] = from
    /\ Goto(t, "f_lock")
    /\ loc' = [loc EXCEPT ![t] = NoLocals]
    /\ hist' = [hist EXCEPT !.call[t] = [NoHistory EXCEPT !.cfgs = {config}]]
    /\ UNCHANGED <<current_load_mbps, last_state, config, model, lock, smp,
                   data, clock, sleep_time, row>>

\* line 185: with self.lock
FLock(t) ==
    /\ pc[t] = "f_lock"
    /\ Acquire(t)
    /\ Goto(t, "f_load")
    /\ UNCHANGED <<current_load_mbps, last_state, config, model, loc, smp,
                   data, clock, sleep_time, hist, row>>

\* lines 187-209: the one read of current_load_mbps and what derives from it
FReadLoad(t) ==
    /\ pc[t] = "f_load"
    /\ loc' = [loc EXCEPT ![t].total_load = current_load_mbps,
                          ![t].feat = Features(current_load_mbps)]
    /\ Goto(t, "f_cls")
    /\ UNCHANGED <<current_load_mbps, last_state, config, model, lock, smp,
                   data, clock, sleep_time, hist, row>>

\* lines 213-224: the decision tree answers with a label and a confidence
FPredict(t) ==
    /\ pc[t] = "f_cls"
    /\ model
    /\ \E s \in States, c \in ModelConfidences :
          loc' = [loc EXCEPT ![t].state = s, ![t].confidence = c]
    /\ Goto(t, "f_alloc")
    /\ UNCHANGED <<current_load_mbps, last_state, config, model, lock, smp,
                   data, clock, sleep_time, hist, row>>

\* lines 217, 358-360 with the lock taken by acquire() and released only at
\* the end of the section: predict raises and the lock stays with the caller
FPredictRaisesLocked(t) ==
    /\ pc[t] = "f_cls"
    /\ model
    /\ loc' = [loc EXCEPT ![t] = NoLocals]
    /\ Goto(t, "f_failed")
    /\ UNCHANGED <<current_load_mbps, last_state, config, model, lock, smp,
                   data, clock, sleep_time, hist, row>>

\* lines 217, 358-360: predict raises; the with block releases the lock, the
\* handler prints and re-raises to the caller
FPredictRaises(t) ==
    /\ pc[t] = "f_cls"
    /\ model
    /\ Release(t)
    /\ loc' = [loc EXCEPT ![t] = NoLocals]
    /\ Goto(t, "f_failed")
    /\ UNCHANGED <<current_load_mbps, last_state, config, model, smp,
                   data, clock, sleep_time, hist, row>>

\* lines 227-228, 233: first read of config['threshold']
FClassify227(t) ==
    /\ pc[t] = "f_cls"
    /\ ~model
    /\ LET thr == config.threshold
           u   == loc[t].feat.utilization_ratio
       IN  IF BelowThreshold(u, thr)
           THEN /\ loc' = [loc EXCEPT ![t].thr_reads = Append(@, thr),
                                      ![t].state = "low",
                                      ![t].confidence = ThresholdConfidence]
                /\ Goto(t, "f_alloc")
           ELSE /\ loc' = [loc EXCEPT ![t].thr_reads = Append(@, thr)]
                /\ Goto(t, "f_cls229")
    /\ UNCHANGED <<current_load_mbps, last_state, config, model, lock, smp,
                   data, clock, sleep_time, hist, row>>

\* lines 229-233: second read of config['threshold']
FClassify229(t) ==
    /\ pc[t] = "f_cls229"
    /\ LET thr == config.threshold
           u   == loc[t].feat.utilization_ratio
       IN  loc' = [loc EXCEPT ![t].thr_reads = Append(@, thr),
                              ![t].state = IF BelowMedLimit(u, thr) THEN "med" ELSE "high",
                              ![t].confidence = ThresholdConfidence]
    /\ Goto(t, "f_alloc")
    /\ UNCHANGED <<current_load_mbps, last_state, config, model, lock, smp,
                   data, clock, sleep_time, hist, row>>

\* lines 238-246, 250-258: the allocation before the ftp_prio adjustments
FAllocate(t) ==
    /\ pc[t] = "f_alloc"
    /\ IF loc[t].state = "low"
       THEN /\ loc' = [loc EXCEPT ![t].alloc = AllocLow]
            /\ Goto(t, "f_alert")
       ELSE IF loc[t].state = "med"
       THEN /\ loc' = [loc EXCEPT ![t].alloc = AllocMedBase]
            /\ Goto(t, "f_p248")
       ELSE /\ loc' = [loc EXCEPT ![t].alloc = AllocHighBase(config.voip_alloc)]
            /\ Goto(t, "f_p259")
    /\ UNCHANGED <<current_load_mbps, last_state, config, model, lock, smp,
                   data, clock, sleep_time, hist, row>>

\* line 248
FPrio248(t) ==
    /\ pc[t] = "f_p248"
    /\ loc' = [loc EXCEPT ![t].prio_reads = Append(@, config.ftp_prio),
                          ![t].alloc = AdjustMedHigh(@, config.ftp_prio)]
    /\ Goto(t, "f_p249")
    /\ UNCHANGED <<current_load_mbps, last_state, config, model, lock, smp,
                   data, clock, sleep_time, hist, row>>

\* line 249
FPrio249(t) ==
    /\ pc[t] = "f_p249"
    /\ loc' = [loc EXCEPT ![t].prio_reads = Append(@, config.ftp_prio),
                          ![t].alloc = AdjustMedLow(@, config.ftp_prio)]
    /\ Goto(t, "f_alert")
    /\ UNCHANGED <<current_load_mbps, last_state, config, model, lock, smp,
                   data, clock, sleep_time, hist, row>>

\* line 259
FPrio259(t) ==
    /\ pc[t] = "f_p259"
    /\ loc' = [loc EXCEPT ![t].prio_reads = Append(@, config.ftp_prio),
                          ![t].alloc = AdjustHigh(@, config.ftp_prio)]
    /\ Goto(t, "f_alert")
    /\ UNCHANGED <<current_load_mbps, last_state, config, model, lock, smp,
                   data, clock, sleep_time, hist, row>>

\* lines 262-290: performance figures, then the comparison with last_state
\* and the transition alert
FTransition(t) ==
    /\ pc[t] = "f_alert"
    /\ LET perf == Performance(loc[t].total_load, loc[t].state, loc[t].feat)
       IN  IF loc[t].state # last_state
           THEN /\ loc' = [loc EXCEPT ![t].perf = perf,
                                      ![t].transition = loc[t].state]
                /\ Goto(t, "f_set")
           ELSE /\ loc' = [loc EXCEPT ![t].perf = perf]
                /\ Goto(t, "f_thr")
    /\ UNCHANGED <<current_load_mbps, last_state, config, model, lock, smp,
                   data, clock, sleep_time, hist, row>>

\* line 291 left out: last_state keeps its value
FSetLastStateSkipped(t) ==
    /\ pc[t] = "f_set"
    /\ Goto(t, "f_thr")
    /\ UNCHANGED <<current_load_mbps, last_state, config, model, lock, loc,
                   smp, data, clock, sleep_time, row, hist>>

\* line 291 guarded by 'if not internal': the Logger's call leaves last_state
FSetLastStateExternalOnly(t) ==
    /\ pc[t] = "f_set"
    /\ last_state' = IF t = "log" THEN last_state ELSE loc[t].state
    /\ hist' = [hist EXCEPT !.call[t].changed =
                               (t # "log" /\ last_state # loc[t].state)]
    /\ Goto(t, "f_thr")
    /\ UNCHANGED <<current_load_mbps, config, model, lock, loc, smp,
                   data, clock, sleep_time, row>>

\* line 291: self.last_state = state
FSetLastState(t) ==
    /\ pc[t] = "f_set"
    /\ last_state' = loc[t].state
    /\ hist' = [hist EXCEPT !.call[t].changed = (last_state # loc[t].state)]
    /\ Goto(t, "f_thr")
    /\ UNCHANGED <<current_load_mbps, config, model, lock, loc, smp,
                   data, clock, sleep_time, row>>

\* lines 293-357 with the threshold alerts sent only along with a transition alert
FFinishEdge(t) ==
    /\ pc[t] = "f_thr"
    /\ loc' = [loc EXCEPT
                 ![t].critical = (loc[t].transition # "none"
                                  /\ CriticalAlert(loc[t].feat.utilization_ratio)),
                 ![t].loss_alert = (loc[t].transition # "none"
                                    /\ LossAlert(loc[t].perf.packet_loss))]
    /\ Release(t)
    /\ hist' = [hist EXCEPT !.call[t].prev = hist.classified,
                            !.call[t].prev_by = hist.by,
                            !.classified = loc[t].state,
                            !.by = t]
    /\ Goto(t, "f_ret")
    /\ UNCHANGED <<current_load_mbps, last_state, config, model, smp,
                   data, clock, sleep_time, row>>

\* lines 293-357: threshold alerts, metrics_data, end of the with block
FFinish(t) ==
    /\ pc[t] = "f_thr"
    /\ loc' = [loc EXCEPT
                 ![t].critical = CriticalAlert(loc[t].feat.utilization_ratio),
                 ![t].loss_alert = LossAlert(loc[t].perf.packet_loss)]
    /\ Release(t)
    /\ hist' = [hist EXCEPT !.call[t].prev = hist.classified,
                            !.call[t].prev_by = hist.by,
                            !.classified = loc[t].state,
                            !.by = t]
    /\ Goto(t, "f_ret")
    /\ UNCHANGED <<current_load_mbps, last_state, config, model, smp,
                   data, clock, sleep_time, row>>

\* line 331: round(total_load, 1). The double 0.05 lies above the decimal
\* tie, so Python rounds the initial load to 0.1, not to the even 0.0
RoundAggregate(total_load) ==
    IF total_load = InitialLoad THEN 10 ELSE RoundTo(total_load, 10)

\* lines 325-357: metrics_data as built from the locals, rounded as there
MetricsData(l) ==
    [traffic    |-> [voip |-> RoundTo(l.feat.traffic.voip_kbps, 10),
                     http |-> RoundTo(l.feat.traffic.http_mbps, 100),
                     ftp  |-> RoundTo(l.feat.traffic.ftp_mbps, 100),
                     aggregate |-> RoundAggregate(l.total_load)],
     monitoring |-> [arrival_rate |-> l.feat.arrival_rate,
                     delay |-> RoundTo(l.feat.base_delay, 100),
                     queue_length |-> l.feat.queue_length],
     ml         |-> [state |-> l.state, confidence |-> l.confidence],
     qos        |-> [bandwidth |-> l.alloc.bw, queues |-> l.alloc.q],
     router     |-> [link_utilization |-> l.perf.link_utilization,
                     queue_occupancy |-> l.perf.queue_occupancy],
     performance |-> [delay |-> RoundTo(l.perf.final_delay, 100),
                      throughput |-> RoundTo(l.perf.final_tput, 100),
                      packet_loss |-> RoundTo(l.perf.packet_loss, 100)],
     alerts     |-> [transition |-> l.transition,
                     critical |-> l.critical,
                     loss |-> l.loss_alert]]

\* lines 364, 370: the request thread hands the snapshot to its client
FReturn(t) ==
    /\ t = "req"
    /\ pc[t] = "f_ret"
    /\ Goto(t, "idle")
    /\ loc' = [loc EXCEPT ![t] = NoLocals]
    /\ hist' = [hist EXCEPT !.call[t] = NoHistory]
    /\ UNCHANGED <<current_load_mbps, last_state, config, model, lock, smp,
                   data, clock, sleep_time, row>>

\* line 370: the failure reaches the request thread's client (HTTP 500)
FFailed(t) ==
    /\ t = "req"
    /\ pc[t] = "f_failed"
    /\ Goto(t, "idle")
    /\ hist' = [hist EXCEPT !.call[t] = NoHistory]
    /\ UNCHANGED <<current_load_mbps, last_state, config, model, lock, loc,
                   smp, data, clock, sleep_time, row>>

----------------------------------------------------------------------------
(* _traffic_monitor *)

\* byte deltas io2 - io1 (sent + received) of one window, in units of 1250
\* bytes (10 kbit): none, a counter reset, 50 Mbps and 90 Mbps over 2 s
SampleDeltas == {-2, 0, 10000, 18000}

\* dt = t2 - t1 after time.sleep(2), in seconds
SampleWindow == 2

\* line 79: ((bytes_sent + bytes_recv) * 8) / (dt * 1000000), in 1/100 Mbps
Mbps(delta, dt) == Trunc(delta, dt)

\* line 81 left out
FloorNone(load) == load

\* line 81: max(0.01, self.current_load_mbps)
Floor(load) == Max(LoadFloor, load)

\* values current_load_mbps holds between Sampler cycles
StoredLoads == {InitialLoad} \cup {Floor(Mbps(d, SampleWindow)) : d \in SampleDeltas}

\* lines 68-69: t1, io1
SRead1 ==
    /\ pc["smp"] = "s_read1"
    /\ Goto("smp", "s_sleep")
    /\ UNCHANGED <<current_load_mbps, last_state, config, model, lock, loc,
                   smp, data, clock, sleep_time, hist, row>>

\* line 70: time.sleep(2)
SSleep ==
    /\ pc["smp"] = "s_sleep"
    /\ Goto("smp", "s_read2")
    /\ UNCHANGED <<current_load_mbps, last_state, config, model, lock, loc,
                   smp, data, clock, sleep_time, hist, row>>

\* lines 71-76: t2, io2 and the deltas
SRead2 ==
    /\ pc["smp"] = "s_read2"
    /\ \E d \in SampleDeltas : smp' = [delta |-> d]
    /\ Goto("smp", "s_lock")
    /\ UNCHANGED <<current_load_mbps, last_state, config, model, lock, loc,
                   data, clock, sleep_time, hist, row>>

\* lines 69, 72, 83-84: psutil.net_io_counters() raises
SReadFails ==
    /\ pc["smp"] \in {"s_read1", "s_read2"}
    /\ Goto("smp", "s_backoff")
    /\ UNCHANGED <<current_load_mbps, last_state, config, model, lock, loc,
                   smp, data, clock, sleep_time, hist, row>>

\* the except clause taken as the end of the loop: the thread ends
SBackoffExits ==
    /\ pc["smp"] = "s_backoff"
    /\ Goto("smp", "s_exit")
    /\ UNCHANGED <<current_load_mbps, last_state, config, model, lock, loc,
                   smp, data, clock, sleep_time, hist, row>>

\* line 85: time.sleep(5), then the next cycle
SBackoff ==
    /\ pc["smp"] = "s_backoff"
    /\ Goto("smp", "s_read1")
    /\ UNCHANGED <<current_load_mbps, last_state, config, model, lock, loc,
                   smp, data, clock, sleep_time, hist, row>>

\* line 78 left out: the Sampler stores without the lock
SLockNoWait ==
    /\ pc["smp"] = "s_lock"
    /\ Goto("smp", "s_store")
    /\ UNCHANGED <<current_load_mbps, last_state, config, model, lock, loc,
                   smp, data, clock, sleep_time, row, hist>>

\* line 78: with self.lock
SLock ==
    /\ pc["smp"] = "s_lock"
    /\ Acquire("smp")
    /\ Goto("smp", "s_store")
    /\ UNCHANGED <<current_load_mbps, last_state, config, model, loc, smp,
                   data, clock, sleep_time, hist, row>>

\* line 79: the unclamped rate is stored
SStore ==
    /\ pc["smp"] = "s_store"
    /\ current_load_mbps' = Mbps(smp.delta, SampleWindow)
    /\ Goto("smp", "s_clamp")
    /\ UNCHANGED <<last_state, config, model, lock, loc, smp, data, clock,
                   sleep_time, hist, row>>

\* lines 79, 83-84: the division raises (t2 = t1 after a step of the wall
\* clock); the with block releases the lock on the way to the handler
SStoreFails ==
    /\ pc["smp"] = "s_store"
    /\ Release("smp")
    /\ smp' = [delta |-> 0]
    /\ Goto("smp", "s_backoff")
    /\ UNCHANGED <<current_load_mbps, last_state, config, model, loc, data,
                   clock, sleep_time, hist, row>>

\* line 81 and the end of the with block
SClamp ==
    /\ pc["smp"] = "s_clamp"
    /\ current_load_mbps' = Floor(current_load_mbps)
    /\ Release("smp")
    /\ smp' = [delta |-> 0]
    /\ Goto("smp", "s_read1")
    /\ UNCHANGED <<last_state, config, model, loc, data, clock,
                   sleep_time, hist, row>>

Sampler ==
    \/ SRead1 \/ SSleep \/ SRead2 \/ SReadFails \/ SBackoff
    \/ SLock \/ SStore \/ SStoreFails \/ SClamp

----------------------------------------------------------------------------
(* update_config *)

Num(v) == [kind |-> "num", v |-> v, s |-> ""]

Str(s) == [kind |-> "str", v |-> 0, s |-> s]

\* a JSON value int() and float() raise on
Bad == [kind |-> "bad", v |-> 0, s |-> ""]

\* data['voip_alloc'], numbers in 1/10: 80, 150
VoipInputs == {NoData, Num(800), Num(1500), Bad}

\* data['threshold'], numbers in 1/10000: 0.95, 1.5
ThresholdInputs == {NoData, Num(9500), Num(15000), Bad}

\* data['ftp_prio']
PrioInputs == {NoData, Str("high"), Str("low"), Str("urgent")}

\* request bodies of POST /api/config
Requests == [voip_alloc : VoipInputs, threshold : ThresholdInputs, ftp_prio : PrioInputs]

\* int(x) of a JSON number
PyInt(x) == Trunc(x.v, 10)

\* float(x) of a JSON number
PyFloat(x) == x.v

\* int() or float() raises ValueError / TypeError
Raises(x) == x.kind = "bad"

InCall(t) == pc[t] \in {"f_lock", "f_load", "f_cls", "f_cls229", "f_alloc", "f_p248",
                        "f_p249", "f_p259", "f_alert", "f_set", "f_thr", "f_ret"}

\* a store into self.config, seen by every call in progress
Store(field, value) ==
    /\ config' = [config EXCEPT ![field] = value]
    /\ hist' = [hist EXCEPT !.call = [t \in Callers |->
                  IF InCall(t)
                  THEN [hist.call[t] EXCEPT !.cfgs = @ \cup {[config EXCEPT ![field] = value]}]
                  ELSE hist.call[t]]]

\* POST /api/config requests the model lets arrive
MaxPosts == 1

\* lines 400-403: the body arrives; an empty body is answered 400
CfgRequest(bodies) ==
    /\ pc["cfg"] = "c_idle"
    /\ hist.posts < MaxPosts
    /\ \E d \in bodies :
          /\ data' = IF d = NoRequest THEN data ELSE d
          /\ Goto("cfg", IF d = NoRequest THEN "c_idle" ELSE "c_voip")
    /\ hist' = [hist EXCEPT !.posts = @ + 1]
    /\ UNCHANGED <<current_load_mbps, last_state, config, model, lock, loc,
                   smp, clock, sleep_time, row>>

\* line 406
CfgVoip ==
    /\ pc["cfg"] = "c_voip"
    /\ IF data.voip_alloc.kind = "absent"
       THEN /\ Goto("cfg", "c_thr")
            /\ UNCHANGED <<config, hist>>
       ELSE IF Raises(data.voip_alloc)
       THEN /\ Goto("cfg", "c_failed")
            /\ UNCHANGED <<config, hist>>
       ELSE /\ Store("voip_alloc", PyInt(data.voip_alloc))
            /\ Goto("cfg", "c_thr")
    /\ UNCHANGED <<current_load_mbps, last_state, model, lock, loc, smp,
                   data, clock, sleep_time, row>>

\* line 407
CfgThreshold ==
    /\ pc["cfg"] = "c_thr"
    /\ IF data.threshold.kind = "absent"
       THEN /\ Goto("cfg", "c_prio")
            /\ UNCHANGED <<config, hist>>
       ELSE IF Raises(data.threshold)
       THEN /\ Goto("cfg", "c_failed")
            /\ UNCHANGED <<config, hist>>
       ELSE /\ Store("threshold", PyFloat(data.threshold))
            /\ Goto("cfg", "c_prio")
    /\ UNCHANGED <<current_load_mbps, last_state, model, lock, loc, smp,
                   data, clock, sleep_time, row>>

\* line 408
CfgPrio ==
    /\ pc["cfg"] = "c_prio"
    /\ IF data.ftp_prio.kind = "absent"
       THEN UNCHANGED <<config, hist>>
       ELSE Store("ftp_prio", data.ftp_prio.s)
    /\ Goto("cfg", "c_done")
    /\ UNCHANGED <<current_load_mbps, last_state, model, lock, loc, smp,
                   data, clock, sleep_time, row>>

\* line 410: the answer {"status": "success"}, or the HTTP 500 of an
\* exception raised by int() or float(); the request is over
CfgAnswer ==
    /\ pc["cfg"] \in {"c_done", "c_failed"}
    /\ data' = NoRequest
    /\ Goto("cfg", "c_idle")
    /\ UNCHANGED <<current_load_mbps, last_state, config, model, lock, loc,
                   smp, clock, sleep_time, hist, row>>

Config(bodies) == CfgRequest(bodies) \/ CfgVoip \/ CfgThreshold \/ CfgPrio \/ CfgAnswer

----------------------------------------------------------------------------
(* _background_logger and _log_to_db *)

\* 60 seconds, in ticks
Minute == 1200

\* the 0.1 s of line 97, in ticks
MinSleep == 2

\* lines 93-97 without line 97
SleepTimeNoSkip(now) == Minute - (now % Minute)

\* lines 93-97, for now = time.time()
SleepTime(now) ==
    LET st == Minute - (now % Minute)
    IN  IF st < MinSleep THEN st + Minute ELSE st

\* lines 92-97
LComputeSleep ==
    /\ pc["log"] = "l_now"
    /\ sleep_time' = SleepTime(clock)
    /\ Goto("log", "l_sleep")
    /\ UNCHANGED <<current_load_mbps, last_state, config, model, lock, loc,
                   smp, data, clock, hist, row>>

\* line 99, the passing of time left out
LSleep ==
    /\ pc["log"] = "l_sleep"
    /\ Goto("log", "l_call")
    /\ UNCHANGED <<current_load_mbps, last_state, config, model, lock, loc,
                   smp, data, clock, sleep_time, hist, row>>

\* lines 102, 111 with the call made inside a with self.lock of _log_to_db
LCallLocked ==
    /\ pc["log"] = "l_call"
    /\ Acquire("log")
    /\ Goto("log", "f_lock")
    /\ loc' = [loc EXCEPT !["log"] = NoLocals]
    /\ hist' = [hist EXCEPT !.call["log"] = [NoHistory EXCEPT !.cfgs = {config}]]
    /\ UNCHANGED <<current_load_mbps, last_state, config, model, smp,
                   data, clock, sleep_time, row>>

\* lines 102, 111
LCall == BeginCall("log", "l_call")

\* lines 115-121: what _log_to_db takes from the snapshot
Row(m) ==
    [voip  |-> m.traffic.voip,
     http  |-> m.traffic.http,
     ftp   |-> m.traffic.ftp,
     delay |-> m.performance.delay,
     tput  |-> m.performance.throughput,
     loss  |-> m.performance.packet_loss,
     state |-> m.ml.state]

\* lines 111-123: the snapshot is back in _log_to_db, which keeps seven fields
LGotMetrics ==
    /\ pc["log"] = "f_ret"
    /\ row' = Row(MetricsData(loc["log"]))
    /\ loc' = [loc EXCEPT !["log"] = NoLocals]
    /\ hist' = [hist EXCEPT !.call["log"] = NoHistory]
    /\ Goto("log", "l_conn")
    /\ UNCHANGED <<current_load_mbps, last_state, config, model, lock,
                   smp, data, clock, sleep_time>>

\* lines 141-142: the failure of get_current_metrics is printed; the loop goes on
LCallFailed ==
    /\ pc["log"] = "f_failed"
    /\ Goto("log", "l_now")
    /\ hist' = [hist EXCEPT !.call["log"] = NoHistory]
    /\ UNCHANGED <<current_load_mbps, last_state, config, model, lock, loc,
                   smp, data, clock, sleep_time, row>>

\* lines 125-126, 144-152: a connection, or None
LConnect ==
    /\ pc["log"] = "l_conn"
    /\ \E connected \in BOOLEAN :
          IF connected
          THEN /\ Goto("log", "l_insert")
               /\ UNCHANGED row
          ELSE /\ Goto("log", "l_now")
               /\ row' = NoRow
    /\ UNCHANGED <<current_load_mbps, last_state, config, model, lock, loc,
                   smp, data, clock, sleep_time, hist>>

\* lines 127-140: insert and commit, or the failure printed; close
LInsert ==
    /\ pc["log"] = "l_insert"
    /\ Goto("log", "l_now")
    /\ row' = NoRow
    /\ UNCHANGED <<current_load_mbps, last_state, config, model, lock, loc,
                   smp, data, clock, sleep_time, hist>>

Logger == LComputeSleep \/ LSleep \/ LCall \/ LGotMetrics \/ LCallFailed \/ LConnect \/ LInsert

----------------------------------------------------------------------------
(* The program: Sampler, Logger, one request thread, the configuration handler *)

Facade(t) ==
    \/ FLock(t) \/ FReadLoad(t) \/ FPredict(t) \/ FPredictRaises(t)
    \/ FClassify227(t) \/ FClassify229(t) \/ FAllocate(t)
    \/ FPrio248(t) \/ FPrio249(t) \/ FPrio259(t)
    \/ FTransition(t) \/ FSetLastState(t) \/ FFinish(t)

\* line 370: GET /api/status
GetStatus == BeginCall("req", "idle") \/ FReturn("req") \/ FFailed("req")

\* the Sampler, the Logger and a request thread on the object as constructed
Next ==
    \/ Sampler
    \/ Logger
    \/ GetStatus
    \/ \E t \in Callers : Facade(t)

Spec == Init /\ [][Next]_vars

----------------------------------------------------------------------------
(* The two background threads alone, as started by lines 56-60 *)

NextLoops ==
    \/ Sampler
    \/ Logger
    \/ Facade("log")

\* the operating system runs every thread that can take a step; a thread
\* waiting for the lock is served only if the lock stays free for it
\* (threading.RLock hands the lock to no one in particular)
Fairness ==
    /\ WF_vars(Sampler)
    /\ WF_vars(Logger \/ Facade("log"))

SpecLoops == Init /\ [][NextLoops]_vars /\ Fairness

----------------------------------------------------------------------------
(* A request thread and the configuration handler, from any state the       *)
(* Sampler and earlier calls leave behind                                   *)

InitConfig ==
    \E load \in StoredLoads, last \in States :
        StateWith(load, last, InitialConfig, 0)

NextConfig ==
    \/ GetStatus
    \/ Facade("req")
    \/ Config(Requests)

SpecConfig == InitConfig /\ [][NextConfig]_vars

----------------------------------------------------------------------------
(* get_current_metrics alone, over the loads the Sampler can store and the  *)
(* configurations update_config can store from valid bodies                 *)

\* loads of 0.01 to 120 Mbps
FacadeLoads == {1, 5, 50, 100, 5000, 8500, 9000, 12000}

\* thresholds 0, 0.4, 0.6
FacadeThresholds == {0, 4000, 6000}

ValidConfigs == [voip_alloc : 0..100, threshold : FacadeThresholds, ftp_prio : Priorities]

InitFacade ==
    \E load \in FacadeLoads, cfg \in ValidConfigs :
        StateWith(load, "low", cfg, 0)

NextFacade ==
    \/ GetStatus
    \/ Facade("req")

SpecFacade == InitFacade /\ [][NextFacade]_vars

----------------------------------------------------------------------------
(* get_current_metrics alone, over a wide range of loads and thresholds     *)
(* with the other two fields of the configuration as constructed            *)

\* highest load, in Mbps
MaxLoadMbps == 130

\* loads the Sampler can leave: 0.01 and 0.05 Mbps, every whole Mbps up to
\* MaxLoadMbps, and the neighbours of the limits the Facade compares with
WideLoads ==
    {1, 5, 3499, 3999, 5999, 6499, 7499, 8499, 8501, 9399, 9499, 9899, 9901, 9999, 10001}
        \cup {100 * k : k \in 1..MaxLoadMbps}

\* thresholds 0 to 0.9999
WideThresholds == {0, 2000, 4000, 6000, 6500, 9000, 9999}

InitLoad ==
    \E load \in WideLoads, thr \in WideThresholds :
        StateWith(load, "low", [InitialConfig EXCEPT !.threshold = thr], 0)

SpecLoad == InitLoad /\ [][NextFacade]_vars

----------------------------------------------------------------------------
(* _background_logger against the wall clock; _log_to_db as a duration      *)

\* minutes of wall-clock time the model follows
MaxMinutes == 3

\* ticks by which time.sleep returns late
Lateness == {0, 1}

\* ticks _log_to_db takes: at once, 0.05 s, 1 s, a minute and more
LogDurations == {0, 1, 20, 1200, 1300}

\* line 99: time.sleep(sleep_time)
LSleepTimed ==
    /\ pc["log"] = "l_sleep"
    /\ clock < MaxMinutes * Minute
    /\ \E late \in Lateness : clock' = clock + sleep_time + late
    /\ Goto("log", "l_call")
    /\ UNCHANGED <<current_load_mbps, last_state, config, model, lock, loc,
                   smp, data, sleep_time, row, hist>>

\* line 102: self._log_to_db(), which returns after some time
LLogTimed ==
    /\ pc["log"] = "l_call"
    /\ \E d \in LogDurations : clock' = clock + d
    /\ hist' = [hist EXCEPT !.logged = clock]
    /\ Goto("log", "l_now")
    /\ UNCHANGED <<current_load_mbps, last_state, config, model, lock, loc,
                   smp, data, sleep_time, row>>

\* the process starts at any phase of a minute
InitLogger ==
    \E now \in 0..(Minute - 1) :
        StateWith(InitialLoad, "low", InitialConfig, now)

NextLogger == LComputeSleep \/ LSleepTimed \/ LLogTimed

SpecLogger == InitLogger /\ [][NextLogger]_vars

----------------------------------------------------------------------------
(* Properties *)

Sum(tr) == tr.voip + tr.http + tr.ftp

Returned(t) == pc[t] = "f_ret"

\* C1: in every returned snapshot, whatever the classified state, with
\* voip_alloc in 0..100 and ftp_prio in {low, std, high}, the three
\* bandwidth shares sum to 100 and the three queue shares sum to 100.
C1_SharesSumTo100 ==
    \A t \in Callers :
        (Returned(t) /\ config.voip_alloc \in 0..100 /\ config.ftp_prio \in Priorities)
        => LET qos == MetricsData(loc[t]).qos
           IN  Sum(qos.bandwidth) = 100 /\ Sum(qos.queues) = 100

\* a high snapshot with voip_alloc = 10 (rem = 90, where int(rem * 0.7) is 62)
\* and ftp_prio = high
C1_Witness ==
    /\ Returned("req")
    /\ loc["req"].state = "high"
    /\ config.voip_alloc = 10
    /\ config.ftp_prio = "high"
    /\ loc["req"].alloc = [bw |-> Triple(10, 62, 28), q |-> Triple(50, 40, 10)]

\* C2: a call's snapshot holds a transition alert exactly when the state it
\* classified differs from the state classified by the preceding completed
\* call (initially low), and the alert names the state classified; so of a
\* run of calls classifying the same state only the first one alerts.
C2_AlertIffStateChanged ==
    \A t \in Callers :
        Returned(t)
        => /\ (loc[t].transition # "none") <=> (loc[t].state # hist.call[t].prev)
           /\ loc[t].transition \in {"none", loc[t].state}

\* the Logger's call was the first to classify high and alerted; the request
\* thread's call, next at the same state, did not
C2_Witness ==
    /\ Returned("log") /\ loc["log"].transition = "high"
    /\ Returned("req") /\ loc["req"].state = "high"
    /\ hist.call["req"].prev = "high"
    /\ loc["req"].transition = "none"

\* C3: every snapshot whose utilization ratio is above 0.85 holds the critical
\* alert and every snapshot whose packet loss is above 1.0 holds the loss
\* alert, with or without a transition alert in the same snapshot.
C3_ThresholdAlertsLevelTriggered ==
    \A t \in Callers :
        Returned(t)
        => /\ (loc[t].feat.utilization_ratio > 8500 => MetricsData(loc[t]).alerts.critical)
           /\ (loc[t].perf.packet_loss > 10000 => MetricsData(loc[t]).alerts.loss)

\* two calls in a row at 90 Mbps: both hold both alerts, the second one
\* without a transition alert
C3_Witness ==
    /\ Returned("log") /\ loc["log"].transition = "high"
    /\ loc["log"].critical /\ loc["log"].loss_alert
    /\ Returned("req") /\ loc["req"].transition = "none"
    /\ loc["req"].feat.utilization_ratio > 8500 /\ loc["req"].critical
    /\ loc["req"].perf.packet_loss > 10000 /\ loc["req"].loss_alert

\* C4: once a call has released the lock, its snapshot holds a transition
\* alert to s exactly when that call changed last_state to s; and last_state
\* changes only in the step of a lock holder whose alerts name the new state.
C4_Returned ==
    \A t \in Callers :
        Returned(t)
        => /\ (loc[t].transition # "none") <=> hist.call[t].changed
           /\ (loc[t].transition # "none" => loc[t].transition = loc[t].state)

C4_Step ==
    last_state' # last_state
    => \E t \in Callers : /\ lock.owner = t
                          /\ pc[t] = "f_set"
                          /\ loc[t].transition = last_state'

C4_AlertAndStateTogether == []C4_Returned /\ [][C4_Step]_vars

\* a call that changed last_state to high and holds the alert, while the
\* other thread's call is inside the lock-held section at the same state
C4_Witness ==
    /\ Returned("req") /\ loc["req"].transition = "high"
    /\ hist.call["req"].changed
    /\ last_state = "high"
    /\ lock.owner = "log" /\ pc["log"] = "f_thr"
    /\ loc["log"].state = "high" /\ loc["log"].transition = "none"

\* C5: current_load_mbps, last_state and config change only in steps of a
\* thread that holds the lock: the Sampler, a caller of the Facade, the
\* configuration handler.
C5_WritesHoldLock ==
    [][/\ (current_load_mbps' # current_load_mbps => lock.owner = "smp")
       /\ (last_state' # last_state
             => \E t \in Callers : lock.owner = t /\ pc[t] = "f_set")
       /\ (config' # config => lock.owner = "cfg")]_vars

\* C6: every returned snapshot has its load-derived fields (traffic split,
\* arrival rate, base delay, queue length, utilization, state, performance)
\* computed from one value of current_load_mbps, a value the Sampler left
\* after clamping (or the value of construction), never the unclamped one.
C6_OneClampedLoad ==
    \A t \in Callers :
        Returned(t)
        => \E load \in StoredLoads :
              /\ loc[t].total_load = load
              /\ loc[t].feat = Features(load)
              /\ (~model => loc[t].state =
                              ThresholdState(UtilizationRatio(load), config.threshold))
              /\ loc[t].perf = Performance(load, loc[t].state, Features(load))

\* the Logger holds a snapshot of 90 Mbps while the Sampler, inside its
\* lock-held section, has stored an unclamped value and the request thread
\* waits for the lock
C6_Witness ==
    /\ Returned("log") /\ loc["log"].total_load = 9000
    /\ pc["smp"] = "s_clamp" /\ current_load_mbps < LoadFloor
    /\ pc["req"] = "f_lock"

AllEqual(seq) == \A i, j \in DOMAIN seq : seq[i] = seq[j]

\* C7: the classified state and the allocation of every returned snapshot are
\* those of one configuration that config held during the call, and the
\* repeated reads of config['threshold'] and config['ftp_prio'] within one
\* call see one value.
C7_OneConfiguration ==
    \A t \in Callers :
        Returned(t)
        => /\ AllEqual(loc[t].thr_reads)
           /\ AllEqual(loc[t].prio_reads)
           /\ \E c \in hist.call[t].cfgs :
                 /\ (~model => loc[t].state =
                        ThresholdState(loc[t].feat.utilization_ratio, c.threshold))
                 /\ loc[t].alloc = Allocation(loc[t].state, c)

\* a value a request may hold for the field: absent, or of the type and in the
\* range the field is meant to keep (an integer 0..100, a number in [0, 1), one
\* of the three priorities)
ValidVoip(x) == x.kind = "absent" \/ (x.kind = "num" /\ x.v % 10 = 0 /\ x.v >= 0 /\ x.v <= 1000)

ValidThreshold(x) == x.kind = "absent" \/ (x.kind = "num" /\ x.v >= 0 /\ x.v < 10000)

ValidPrio(x) == x.kind = "absent" \/ (x.kind = "str" /\ x.s \in Priorities)

ValidRequest(d) == ValidVoip(d.voip_alloc) /\ ValidThreshold(d.threshold) /\ ValidPrio(d.ftp_prio)

\* C8: a request holding an invalid value changes no field of config and is
\* not answered with success.
C8_InvalidRequestRejected ==
    [][(pc["cfg"] \in {"c_voip", "c_thr", "c_prio"} /\ ~ValidRequest(data))
          => (config' = config /\ pc'["cfg"] # "c_done")]_vars

\* C9: voip_alloc is an integer in 0..100, threshold is in [0, 1), ftp_prio is
\* one of low, std, high.
C9_ConfigInRange ==
    /\ config.voip_alloc \in 0..100
    /\ config.threshold >= 0 /\ config.threshold < 10000
    /\ config.ftp_prio \in Priorities

\* C10: whenever the Logger has computed its sleep at time now, the duration
\* is 60 - (now mod 60), plus 60 when that is below 0.1; it lies in
\* [0.1, 60.1), now + duration is a minute boundary, and at phase 59.95 s it
\* is 60.05 s.
C10_SleepToNextMinute ==
    pc["log"] = "l_sleep"
    => LET phase == clock % 1200
           rest  == 1200 - phase
       IN  /\ sleep_time = IF rest < 2 THEN rest + 1200 ELSE rest
           /\ sleep_time >= 2 /\ sleep_time < 1202
           /\ (clock + sleep_time) % 1200 = 0
           /\ (phase = 1199 => sleep_time = 1201)

\* the sleep computed at phase 59.95 s
C10_Witness ==
    /\ pc["log"] = "l_sleep"
    /\ clock % 1200 = 1199
    /\ sleep_time = 1201

\* C11: the Logger enters its log step once for every minute boundary it runs
\* through: each entry falls in second :00 of a minute, and that minute is the
\* one after the minute of the entry before (none logged twice, none skipped).
C11_OnePersistPerMinute ==
    pc["log"] = "l_call"
    => /\ clock % Minute < Minute \div 60
       /\ (hist.logged >= 0
             => clock \div Minute = hist.logged \div Minute + 1)

\* C12: neither loop stops. A Sampler whose cycle failed does not hold the
\* lock while it backs off and then starts a new cycle; a Logger whose call of
\* the Facade failed, or that is at the connection or the insert (which may
\* fail), does not hold the lock and goes on to the next call of _log_to_db.
C12_LoopsResume ==
    /\ [](pc["smp"] = "s_backoff" => lock.owner # "smp")
    /\ [](pc["log"] \in {"f_failed", "l_conn", "l_insert"} => lock.owner # "log")
    /\ (pc["smp"] = "s_backoff") ~> (pc["smp"] = "s_read1")
    /\ (pc["log"] \in {"f_failed", "l_conn", "l_insert"}) ~> (pc["log"] = "l_call")

\* the Sampler backs off after a failure while the Logger's call of the Facade
\* has failed
C12_Witness ==
    /\ pc["smp"] = "s_backoff"
    /\ pc["log"] = "f_failed"

\* C13: a thread that sleeps (the Sampler in its 2 s window or its backoff, the
\* Logger waiting for the minute) or is at the database (connect, insert,
\* commit) does not hold the lock, and the Logger at the database has its
\* snapshot's fields already.
C13_NoLockWhileSuspended ==
    /\ (pc["smp"] \in {"s_sleep", "s_backoff"} => lock.owner # "smp")
    /\ (pc["log"] \in {"l_sleep", "l_conn", "l_insert"} => lock.owner # "log")
    /\ (pc["log"] \in {"l_conn", "l_insert"} => row.state \in States)

\* the Logger inserts and the Sampler sleeps while the request thread holds
\* the lock
C13_Witness ==
    /\ pc["log"] = "l_insert"
    /\ pc["smp"] = "s_sleep"
    /\ lock.owner = "req"

LockHeldAt ==
    {"f_load", "f_cls", "f_cls229", "f_alloc", "f_p248", "f_p249", "f_p259",
     "f_alert", "f_set", "f_thr", "s_store", "s_clamp"}

C15_Failed ==
    /\ \A t \in Callers :
          pc[t] = "f_failed"
          => /\ loc[t] = NoLocals
             /\ lock.owner # t
             /\ ~hist.call[t].changed
    /\ (lock.owner # "none" => pc[lock.owner] \in LockHeldAt)
    /\ \A t \in {"smp", "log", "req"} :
          (pc[t] \in {"s_lock", "f_lock"} /\ lock.owner = "none")
          => ENABLED (IF t = "smp" THEN SLock ELSE FLock(t))

C15_Step ==
    \A t \in Callers :
        (pc[t] # "f_failed" /\ pc'[t] = "f_failed")
        => /\ last_state' = last_state
           /\ lock'.owner = "none"

\* C15: a call of get_current_metrics whose predict raises ends as a failure
\* at its caller with no snapshot, in one step that leaves last_state as it
\* was and the lock free; the lock is owned only by a thread inside a
\* lock-held section, so a thread waiting for the lock finds it free and can
\* acquire it once the owner has left.
C15_FailureReleasesLock == []C15_Failed /\ [][C15_Step]_vars

\* the Logger's call has failed and is not yet handled; the request thread
\* has acquired the lock since and the Sampler waits for it
C15_Witness ==
    /\ pc["log"] = "f_failed"
    /\ lock.owner = "req" /\ pc["req"] = "f_load"
    /\ pc["smp"] = "s_lock"

\* C16 as stated: current_load_mbps >= 0.01 in every reachable state.
C16_LoadAtLeastFloor == current_load_mbps >= LoadFloor

\* C16: current_load_mbps >= 0.01 in every state in which the Sampler does not
\* hold the lock, hence from construction on, after every Sampler cycle and
\* at every read made under the lock, whatever the two counter reads were.
C16_LoadAtLeastFloorOutsideSampler ==
    /\ (lock.owner # "smp" => current_load_mbps >= LoadFloor)
    /\ \A t \in Callers :
          pc[t] \notin {"f_lock", "f_load", "f_failed", "idle", "l_now", "l_sleep",
                        "l_call", "l_conn", "l_insert"}
          => loc[t].total_load >= LoadFloor

\* a cycle whose byte delta was negative (a counter reset) has ended with the
\* load at the floor, and the Logger has read it
C16_Witness ==
    /\ pc["smp"] = "s_read1" /\ lock.owner = "log"
    /\ current_load_mbps = LoadFloor
    /\ pc["log"] = "f_cls" /\ loc["log"].total_load = LoadFloor

\* the call of thread t has read the load (line 187) and computed lines 191-209
HasFeatures(t) ==
    pc[t] \in {"f_cls", "f_cls229", "f_alloc", "f_p248", "f_p249", "f_p259",
               "f_alert", "f_set", "f_thr", "f_ret"}

\* C17: for every load the Facade reads, the utilization ratio lies in
\* [0, 0.99] and the base delay 5.0/(1 - ratio) in [5, 500]; at and above
\* capacity_mbps the ratio is 0.99 and the delay 500. At load 0 the ratio is 0
\* and the delay 5.
C17_RatioAndDelayBounded ==
    /\ \A t \in Callers :
          HasFeatures(t)
          => LET f == loc[t].feat
             IN  /\ f.utilization_ratio >= 0 /\ f.utilization_ratio <= 9900
                 /\ f.base_delay >= 5000 /\ f.base_delay <= 500000
                 /\ f.base_delay * (10000 - f.utilization_ratio) <= 5000 * 10000
                 /\ (f.base_delay + 1) * (10000 - f.utilization_ratio) > 5000 * 10000
                 /\ (loc[t].total_load >= capacity_mbps
                       => f.utilization_ratio = 9900 /\ f.base_delay = 500000)
    /\ UtilizationRatio(0) = 0 /\ BaseDelay(UtilizationRatio(0)) = 5000

\* a call that read a load of exactly capacity_mbps
C17_Witness ==
    /\ pc["req"] = "f_ret"
    /\ loc["req"].total_load = capacity_mbps
    /\ loc["req"].feat.utilization_ratio = 9900
    /\ loc["req"].feat.base_delay = 500000

\* the call of thread t has classified (lines 213-233)
HasState(t) ==
    pc[t] \in {"f_alloc", "f_p248", "f_p249", "f_p259", "f_alert", "f_set",
               "f_thr", "f_ret"}

\* the call of thread t has computed lines 262-277
HasPerformance(t) == pc[t] \in {"f_set", "f_thr", "f_ret"}

\* C18: without a model, a call with utilization ratio u and threshold t
\* classifies low if u < t, med if t <= u < min(0.95, t + 0.35), high
\* otherwise, with confidence 80.0; at load 95.0 and threshold 0.4 the state
\* is high, the final delay is base delay * 0.8 and the loss at least 1.5.
C18_ThresholdClassification ==
    \A t \in Callers :
        (HasState(t) /\ ~model)
        => LET u   == loc[t].feat.utilization_ratio
               thr == config.threshold
           IN  /\ (u < thr => loc[t].state = "low")
               /\ ((thr <= u /\ u < 9500 /\ u < thr + 3500) => loc[t].state = "med")
               /\ ((thr <= u /\ (u >= 9500 \/ u >= thr + 3500)) => loc[t].state = "high")
               /\ loc[t].confidence = 800
               /\ ((loc[t].total_load = 9500 /\ thr = 4000 /\ HasPerformance(t))
                     => /\ loc[t].state = "high"
                        /\ 10 * loc[t].perf.final_delay = 8 * loc[t].feat.base_delay
                        /\ loc[t].perf.packet_loss >= 15000
                        /\ (pc[t] = "f_ret"
                              => MetricsData(loc[t]).performance.packet_loss >= 15000))

\* the snapshot of load 95.0 at threshold 0.4 without a model
C18_Witness ==
    /\ pc["req"] = "f_ret" /\ ~model
    /\ loc["req"].total_load = 9500 /\ config.threshold = 4000
    /\ loc["req"].state = "high" /\ loc["req"].confidence = 800
    /\ loc["req"].perf.final_delay = 80000
    /\ loc["req"].perf.packet_loss = 15000

\* C19: in every call whose state is high the packet loss is
\* 0.5 + max(0, u - 0.75) * 5.0, which is at least 0.5, and the final
\* throughput does not exceed the load.
C19_HighLossFormula ==
    \A t \in Callers :
        (HasPerformance(t) /\ loc[t].state = "high")
        => LET u == loc[t].feat.utilization_ratio
           IN  /\ loc[t].perf.packet_loss = 5000 + Max(0, u - 7500) * 5
               /\ loc[t].perf.packet_loss >= 5000
               /\ loc[t].perf.final_tput <= loc[t].total_load * 100

\* C20 as stated: in a med snapshot, ftp_prio = high moves 10 points from http
\* to ftp in the bandwidth triple and in the queue triple, low moves 10 points
\* from ftp to http in both, std leaves {30,45,25} and {20,40,40}.
C20_MedShiftsBothTowardsBulk ==
    \A t \in Callers :
        (Returned(t) /\ loc[t].state = "med")
        => LET qos == MetricsData(loc[t]).qos
           IN  /\ (config.ftp_prio = "high"
                     => /\ qos.bandwidth = Triple(30, 35, 35)
                        /\ qos.queues = Triple(20, 30, 50))
               /\ (config.ftp_prio = "low"
                     => /\ qos.bandwidth = Triple(30, 55, 15)
                        /\ qos.queues = Triple(20, 50, 30))
               /\ (config.ftp_prio = "std"
                     => /\ qos.bandwidth = Triple(30, 45, 25)
                        /\ qos.queues = Triple(20, 40, 40))

\* C20: in a med snapshot, ftp_prio = high moves 10 points of bandwidth from
\* http to ftp and 10 points of queue from ftp to http; low moves 10 points of
\* bandwidth from ftp to http and 10 points of queue from http to ftp; std
\* leaves {30,45,25} and {20,40,40}.
C20_MedShiftsQueueOpposite ==
    \A t \in Callers :
        (Returned(t) /\ loc[t].state = "med")
        => LET qos == MetricsData(loc[t]).qos
           IN  /\ (config.ftp_prio = "high"
                     => /\ qos.bandwidth = Triple(30, 35, 35)
                        /\ qos.queues = Triple(20, 50, 30))
               /\ (config.ftp_prio = "low"
                     => /\ qos.bandwidth = Triple(30, 55, 15)
                        /\ qos.queues = Triple(20, 30, 50))
               /\ (config.ftp_prio = "std"
                     => /\ qos.bandwidth = Triple(30, 45, 25)
                        /\ qos.queues = Triple(20, 40, 40))

\* a med snapshot under ftp_prio = high
C20_Witness ==
    /\ Returned("req")
    /\ loc["req"].state = "med"
    /\ config.ftp_prio = "high"
    /\ MetricsData(loc["req"]).qos.queues = Triple(20, 50, 30)

\* C21: every bandwidth share and every queue share of every returned
\* snapshot is an integer in 0..100, whatever the state and whatever
\* configuration updates and Sampler cycles came before.
C21_EveryShareInRange ==
    \A t \in Callers :
        Returned(t)
        => LET qos == MetricsData(loc[t]).qos
           IN  \A k \in {"voip", "http", "ftp"} :
                  /\ qos.bandwidth[k] \in 0..100
                  /\ qos.queues[k] \in 0..100

C22_Snapshots ==
    /\ Returned("log")
         => /\ (loc["log"].transition # "none")
                  <=> (loc["log"].state # hist.call["log"].prev)
            /\ (loc["log"].transition # "none") <=> hist.call["log"].changed
            /\ loc["log"].transition \in {"none", loc["log"].state}
    /\ pc["log"] \in {"l_conn", "l_insert"}
         => DOMAIN row = {"voip", "http", "ftp", "delay", "tput", "loss", "state"}
    /\ (Returned("req") /\ hist.call["req"].prev_by = "log"
           /\ hist.call["req"].prev = loc["req"].state)
         => loc["req"].transition = "none"

C22_Step ==
    (pc["log"] = "f_set" /\ pc'["log"] # "f_set")
    => last_state' = loc["log"].state

\* C22: the Logger's call of the Facade runs the path of an external call:
\* its snapshot holds a transition alert exactly when its state differs from
\* that of the preceding completed call, and it then writes last_state
\* (line 291). What the Logger keeps of the snapshot holds no alert, and an
\* external call that follows the Logger's call at the same state holds no
\* transition alert.
C22_LoggerCallAsExternal == []C22_Snapshots /\ [][C22_Step]_vars

\* the Logger's call was the first to classify high and holds the alert; the
\* request thread's call came next, classified high and holds none
C22_Witness ==
    /\ Returned("log") /\ loc["log"].transition = "high"
    /\ hist.call["log"].changed
    /\ Returned("req") /\ hist.call["req"].prev_by = "log"
    /\ loc["req"].state = "high" /\ loc["req"].transition = "none"

====
